---------------------------- MODULE Spec2Model ----------------------------
(***************************************************************************)
(* ayarla: the bootstrap command of src/main.rs.  main runs the Preflight  *)
(* Validator (preflight::checks) on the settings directory and, when it    *)
(* succeeds, the Installer (heyho::lets_go) on the parsed manifest.        *)
(*                                                                         *)
(* The file system is one tree: a function from absolute paths (sequences  *)
(* of names) to nodes.  A node is a regular file (with its text), a real   *)
(* directory or a symbolic link (with its absolute target).  The std       *)
(* library calls the code makes (exists, is_dir, read_dir, read_to_string, *)
(* remove_file, remove_dir_all, create_dir_all, canonicalize, symlink) are *)
(* modelled with their POSIX behaviour, symbolic links included.  Calls    *)
(* fail only for reasons the tree itself gives (ENOENT, ENOTDIR, EEXIST,   *)
(* EISDIR, ELOOP); permissions and device errors are outside the model.    *)
(***************************************************************************)
EXTENDS Naturals, Sequences, FiniteSets

\* ------------------------------------------------------------------ bounds

\* The longest manifest (number of [[manifest_items]] tables).
MaxItems == 2

\* Symbolic links followed while resolving one path before ELOOP.
MaxLinks == 4

\* ------------------------------------------------------------------- paths

HOME == <<"home">>

SETTINGS == <<"settings">>

MANIFEST_FILE_NAME == "manifest.toml"

\* A target no tree of the model holds: a link to it dangles.
GONE == <<"gone">>

Front(p) == SubSeq(p, 1, Len(p) - 1)

Last(p) == p[Len(p)]

IsPrefix(p, q) == Len(p) <= Len(q) /\ SubSeq(q, 1, Len(p)) = p

\* ------------------------------------------------------------------- nodes

\* The text of a file.  Only manifest.toml's text is ever read: empty says
\* the file has no bytes, valid that it parses as TOML with a
\* manifest_items array, tables are that array's tables.  A field of a table
\* is a set: empty when the key is absent, else the singleton of its value.
NoText == [empty |-> TRUE, valid |-> FALSE, tables |-> <<>>]

File(text) == [k |-> "file", t |-> <<>>, text |-> text]

Dir == [k |-> "dir", t |-> <<>>, text |-> NoText]

Link(target) == [k |-> "link", t |-> target, text |-> NoText]

\* lstat: the node at a real path ("none" when there is no entry).  The root
\* is a directory.
Kind(f, p) == IF p = <<>> THEN "dir" ELSE IF p \in DOMAIN f THEN f[p].k ELSE "none"

MkFs(pairs) == [p \in {e[1] : e \in pairs} |-> (CHOOSE e \in pairs : e[1] = p)[2]]

Without(f, gone) == [p \in (DOMAIN f) \ gone |-> f[p]]

With(f, p, node) == [q \in (DOMAIN f) \cup {p} |-> IF q = p THEN node ELSE f[q]]

\* ------------------------------------------------------- path resolution

Fail(e) == [ok |-> FALSE, err |-> e, path |-> <<>>]

\* Path resolution: from the real directory cur, walk the components of
\* rest, following every symbolic link met (its target is absolute).
RECURSIVE Walk(_, _, _, _)
Walk(f, cur, rest, fuel) ==
    IF rest = <<>> THEN [ok |-> TRUE, err |-> "", path |-> cur]
    ELSE IF Kind(f, cur) # "dir" THEN Fail("ENOTDIR")
    ELSE LET q == Append(cur, Head(rest)) IN
         IF q \notin DOMAIN f THEN Fail("ENOENT")
         ELSE IF f[q].k = "link"
              THEN IF fuel = 0 THEN Fail("ELOOP")
                   ELSE Walk(f, <<>>, f[q].t \o Tail(rest), fuel - 1)
              ELSE Walk(f, q, Tail(rest), fuel)

\* std::fs::canonicalize / stat: the real path of p, all links followed.
Canonicalize(f, p) == Walk(f, <<>>, p, MaxLinks)

\* Path::exists: stat succeeds (a dangling link does not exist).
Exists(f, p) == Canonicalize(f, p).ok

\* Path::is_dir: stat succeeds and finds a directory (links followed).
IsDir(f, p) == LET r == Canonicalize(f, p) IN r.ok /\ Kind(f, r.path) = "dir"

\* Where the entry named by p lives: its parent resolved, its last name
\* kept (what lstat, unlink, mkdir and symlink act on).
Entry(f, p) ==
    IF p = <<>> THEN [ok |-> TRUE, err |-> "", path |-> <<>>]
    ELSE LET r == Canonicalize(f, Front(p)) IN
         IF ~r.ok THEN r
         ELSE IF Kind(f, r.path) # "dir" THEN Fail("ENOTDIR")
         ELSE [ok |-> TRUE, err |-> "", path |-> Append(r.path, Last(p))]


\* ------------------------------------------------ file system operations

\* What a call came to: the tree after it, and the calls that changed the
\* tree on the way.
Done(f) == [ok |-> TRUE, err |-> "", fs |-> f, calls |-> <<>>]

Did(f, call) == [ok |-> TRUE, err |-> "", fs |-> f, calls |-> <<call>>]

Err(f, e) == [ok |-> FALSE, err |-> e, fs |-> f, calls |-> <<>>]

\* std::os::unix::fs::symlink(original, link): a new link entry; fails when
\* the parent does not resolve to a directory or any entry (a dangling
\* link too) already has the name.
Symlink(f, original, link) ==
    LET e == Entry(f, link) IN
    IF ~e.ok THEN Err(f, e.err)
    ELSE IF e.path = <<>> \/ e.path \in DOMAIN f THEN Err(f, "EEXIST")
    ELSE Did(With(f, e.path, Link(original)), "symlink")

\* std::fs::remove_file: unlink the entry itself (a link is not followed).
RemoveFile(f, p) ==
    LET e == Entry(f, p) IN
    IF ~e.ok THEN Err(f, e.err)
    ELSE IF Kind(f, e.path) = "none" THEN Err(f, "ENOENT")
    ELSE IF Kind(f, e.path) = "dir" THEN Err(f, "EISDIR")
    ELSE Did(Without(f, {e.path}), "remove_file")

\* std::fs::remove_dir_all: a symbolic link is unlinked and not followed; a
\* real directory goes with everything below it.
RemoveDirAll(f, p) ==
    LET e == Entry(f, p) IN
    IF ~e.ok THEN Err(f, e.err)
    ELSE IF Kind(f, e.path) = "none" THEN Err(f, "ENOENT")
    ELSE IF Kind(f, e.path) = "link" THEN Did(Without(f, {e.path}), "remove_dir_all")
    ELSE IF Kind(f, e.path) = "file" THEN Err(f, "ENOTDIR")
    ELSE Did(Without(f, {q \in DOMAIN f : IsPrefix(e.path, q)}), "remove_dir_all")

\* mkdir(2).
Mkdir(f, p) ==
    LET e == Entry(f, p) IN
    IF ~e.ok THEN Err(f, e.err)
    ELSE IF e.path = <<>> \/ e.path \in DOMAIN f THEN Err(f, "EEXIST")
    ELSE Did(With(f, e.path, Dir), "mkdir")

\* std::fs::create_dir_all, the second mkdir: after the parent was made.
MkdirAfter(r, n, p) ==
    IF n.ok THEN [n EXCEPT !.calls = r.calls \o n.calls]
    ELSE IF IsDir(r.fs, p) THEN r
    ELSE [n EXCEPT !.calls = r.calls]

\* std::fs::create_dir_all: mkdir; on NotFound create the parent first and
\* mkdir again; any other failure is forgiven when the path is a directory.
RECURSIVE CreateDirAll(_, _)
CreateDirAll(f, p) ==
    IF p = <<>> THEN Done(f)
    ELSE LET m == Mkdir(f, p) IN
         IF m.ok THEN m
         ELSE IF m.err = "ENOENT"
              THEN LET r == CreateDirAll(f, Front(p)) IN
                   IF ~r.ok THEN r ELSE MkdirAfter(r, Mkdir(r.fs, p), p)
              ELSE IF IsDir(f, p) THEN Done(f) ELSE m

\* std::fs::read_dir: the names of the entries of the directory p.
ReadDir(f, p) ==
    LET r == Canonicalize(f, p) IN
    IF ~r.ok \/ Kind(f, r.path) # "dir" THEN {}
    ELSE {Last(q) : q \in {x \in DOMAIN f : Len(x) = Len(r.path) + 1 /\ IsPrefix(r.path, x)}}

\* std::fs::read_to_string: the text of the file p resolves to.
ReadToString(f, p) ==
    LET r == Canonicalize(f, p) IN
    IF ~r.ok THEN [ok |-> FALSE, err |-> r.err, text |-> NoText]
    ELSE IF Kind(f, r.path) # "file" THEN [ok |-> FALSE, err |-> "EISDIR", text |-> NoText]
    ELSE [ok |-> TRUE, err |-> "", text |-> f[r.path].text]

\* -------------------------------------------------------------- preflight

Rejected(e) == [ok |-> FALSE, err |-> e, settings_dir_path |-> <<>>, manifest_content |-> NoText]

\* are_we_ready_for_takeoff with the manifest-only test (line 64) made
\* before the test for manifest.toml (line 54).
takeoff_checks_swapped(f, settings_directory) ==
    IF ~Exists(f, settings_directory) THEN Rejected("NotFound")
    ELSE IF ~IsDir(f, settings_directory) THEN Rejected("NotADirectory")
    ELSE LET dir_entries == ReadDir(f, settings_directory) IN
         IF dir_entries = {} THEN Rejected("EmptyDirectory")
         ELSE IF Cardinality(dir_entries) = 1 THEN Rejected("NothingToInstall")
         ELSE IF MANIFEST_FILE_NAME \notin dir_entries THEN Rejected("ManifestMissing")
         ELSE LET read == ReadToString(f, Append(settings_directory, MANIFEST_FILE_NAME)) IN
              IF ~read.ok THEN Rejected("IoError")
              ELSE IF read.text.empty THEN Rejected("EmptyManifest")
              ELSE [ok |-> TRUE, err |-> "", settings_dir_path |-> settings_directory,
                    manifest_content |-> read.text]

\* preflight::are_we_ready_for_takeoff
are_we_ready_for_takeoff(f, settings_directory) ==
    IF ~Exists(f, settings_directory) THEN Rejected("NotFound")
    ELSE IF ~IsDir(f, settings_directory) THEN Rejected("NotADirectory")
    ELSE LET dir_entries == ReadDir(f, settings_directory) IN
         IF dir_entries = {} THEN Rejected("EmptyDirectory")
         ELSE IF MANIFEST_FILE_NAME \notin dir_entries THEN Rejected("ManifestMissing")
         ELSE IF Cardinality(dir_entries) = 1 THEN Rejected("NothingToInstall")
         ELSE LET read == ReadToString(f, Append(settings_directory, MANIFEST_FILE_NAME)) IN
              IF ~read.ok THEN Rejected("IoError")
              ELSE IF read.text.empty THEN Rejected("EmptyManifest")
              ELSE [ok |-> TRUE, err |-> "", settings_dir_path |-> settings_directory,
                    manifest_content |-> read.text]

\* serde's view of one [[manifest_items]] table: source and destination are
\* required, force defaults to false.
TableOk(t) == t.source # {} /\ t.destination # {}

ManifestItem(t) ==
    [source |-> CHOOSE s \in t.source : TRUE,
     destination |-> CHOOSE d \in t.destination : TRUE,
     force |-> IF t.force = {} THEN FALSE ELSE CHOOSE b \in t.force : TRUE]

\* red_manifesto that drops the tables lacking a required key.
red_manifesto_lenient(manifest_content) ==
    IF ~manifest_content.valid
    THEN [ok |-> FALSE, err |-> "ManifestParseError", manifest_items |-> <<>>]
    ELSE [ok |-> TRUE, err |-> "",
          manifest_items |-> [i \in 1..Len(SelectSeq(manifest_content.tables, TableOk)) |->
                                 ManifestItem(SelectSeq(manifest_content.tables, TableOk)[i])]]

\* preflight::red_manifesto
red_manifesto(manifest_content) ==
    IF ~manifest_content.valid
       \/ \E i \in 1..Len(manifest_content.tables) : ~TableOk(manifest_content.tables[i])
    THEN [ok |-> FALSE, err |-> "ManifestParseError", manifest_items |-> <<>>]
    ELSE [ok |-> TRUE, err |-> "",
          manifest_items |-> [i \in 1..Len(manifest_content.tables) |->
                                 ManifestItem(manifest_content.tables[i])]]

\* preflight::checks
checks(f, settings_directory) ==
    LET are_we_ready == are_we_ready_for_takeoff(f, settings_directory) IN
    IF ~are_we_ready.ok
    THEN [ok |-> FALSE, err |-> are_we_ready.err, settings_dir_path |-> <<>>, manifest_items |-> <<>>]
    ELSE LET manifest == red_manifesto(are_we_ready.manifest_content) IN
         [ok |-> manifest.ok, err |-> manifest.err,
          settings_dir_path |-> IF manifest.ok THEN are_we_ready.settings_dir_path ELSE <<>>,
          manifest_items |-> manifest.manifest_items]

\* -------------------------------------------------------------- installer

\* What one iteration of lets_go's loop came to: "warn" (source missing),
\* "skip" (destination exists, no force), "linked", or "error" with the call
\* that failed; and the calls that changed the tree.
Outcome(f, o, op, e, calls) == [fs |-> f, outcome |-> o, op |-> op, err |-> e, calls |-> calls]

\* heyho::lets_go, line 44: symlink(original, link)?
Linked(linked, calls) ==
    IF ~linked.ok THEN Outcome(linked.fs, "error", "symlink", linked.err, calls)
    ELSE Outcome(linked.fs, "linked", "", "", calls \o linked.calls)

\* heyho::lets_go, lines 42-44: source_path.canonicalize()?, then the link.
LinkTo(f, original, destination_path, calls) ==
    IF ~original.ok THEN Outcome(f, "error", "canonicalize", original.err, calls)
    ELSE Linked(Symlink(f, original.path, destination_path), calls)

\* heyho::lets_go, lines 37-44, with what creating the parent came to.
WithParent(made, source_path, destination_path, calls) ==
    IF ~made.ok THEN Outcome(made.fs, "error", "create_dir_all", made.err, calls \o made.calls)
    ELSE LinkTo(made.fs, Canonicalize(made.fs, source_path), destination_path,
                calls \o made.calls)

\* The parent is never created.
parent_never_created(f, parent) == Done(f)

\* heyho::lets_go, lines 37-40: the parent is created when it does not exist.
EnsureParent(f, parent) == IF Exists(f, parent) THEN Done(f) ELSE CreateDirAll(f, parent)

\* heyho::lets_go, lines 28-44, with what removing the destination came to.
AfterRemoval(removed, source_path, destination_path) ==
    IF ~removed.ok THEN Outcome(removed.fs, "error", "remove", removed.err, <<>>)
    ELSE WithParent(EnsureParent(removed.fs, Front(destination_path)),
                    source_path, destination_path, removed.calls)

\* heyho::lets_go, lines 28-32: remove_dir_all for a directory, else
\* remove_file.
Remove(f, destination_path) ==
    IF IsDir(f, destination_path) THEN RemoveDirAll(f, destination_path)
    ELSE RemoveFile(f, destination_path)

\* heyho::lets_go, from the removal of an existing destination on.
Install(f, source_path, destination_path, remove_first) ==
    AfterRemoval(IF remove_first THEN Remove(f, destination_path) ELSE Done(f),
                 source_path, destination_path)

\* The loop body with a missing source raised as an error.
item_missing_source_fails(f, base_path, settings_dir_path, item) ==
    IF ~Exists(f, Append(settings_dir_path, item.source))
    THEN Outcome(f, "error", "canonicalize", "ENOENT", <<>>)
    ELSE IF Exists(f, base_path \o item.destination) /\ ~item.force
    THEN Outcome(f, "skip", "", "", <<>>)
    ELSE Install(f, Append(settings_dir_path, item.source), base_path \o item.destination,
                 Exists(f, base_path \o item.destination))

\* The loop body with the force flag read as always set.
item_force_ignored(f, base_path, settings_dir_path, item) ==
    IF ~Exists(f, Append(settings_dir_path, item.source)) THEN Outcome(f, "warn", "", "", <<>>)
    ELSE Install(f, Append(settings_dir_path, item.source), base_path \o item.destination,
                 Exists(f, base_path \o item.destination))

\* The loop body with the destination handled before the source is looked at.
item_source_checked_late(f, base_path, settings_dir_path, item) ==
    IF Exists(f, base_path \o item.destination) /\ ~item.force
    THEN Outcome(f, "skip", "", "", <<>>)
    ELSE Install(f, Append(settings_dir_path, item.source), base_path \o item.destination,
                 Exists(f, base_path \o item.destination))

\* heyho::lets_go, the body of the loop for one item.
ProcessItem(f, base_path, settings_dir_path, item) ==
    LET source_path == Append(settings_dir_path, item.source)
        destination_path == base_path \o item.destination
    IN  IF ~Exists(f, source_path) THEN Outcome(f, "warn", "", "", <<>>)
        ELSE IF Exists(f, destination_path)
             THEN IF item.force THEN Install(f, source_path, destination_path, TRUE)
                  ELSE Outcome(f, "skip", "", "", <<>>)
             ELSE Install(f, source_path, destination_path, FALSE)

\* The status with a skipped item counted as a warning.
status_warn_on_skip(status, outcome) ==
    IF outcome \in {"warn", "skip"} THEN "Warn" ELSE status

\* heyho::lets_go: the status after an item.
NextStatus(status, outcome) == IF outcome = "warn" THEN "Warn" ELSE status

\* ---------------------------------------------------------- initial trees

TMUX == ".tmux.conf"

NVIM == "nvim"

CONFIG == ".config"

\* What a manifest may name: a source is a name in the settings directory,
\* a destination a path relative to the home directory.
Sources == {TMUX, NVIM}

Destinations == {<<TMUX>>, <<CONFIG, NVIM>>}

\* The [[manifest_items]] tables: every source with every destination,
\* force written true, written false (nvim) or left out (.tmux.conf); and
\* two tables that leave a required key out.
Tables ==
    {[source |-> {s}, destination |-> {d},
      force |-> IF b THEN {TRUE} ELSE IF s = NVIM THEN {FALSE} ELSE {}] :
        s \in Sources, d \in Destinations, b \in BOOLEAN}
    \cup {[source |-> {NVIM}, destination |-> {}, force |-> {FALSE}],
          [source |-> {}, destination |-> {<<CONFIG, NVIM>>}, force |-> {}]}

SeqsUpTo(S, n) == UNION {[1..m -> S] : m \in 0..n}

\* The texts of manifest.toml: no bytes, bytes that are no manifest, and
\* the manifests of up to MaxItems tables.
ManifestTexts ==
    {NoText, [empty |-> FALSE, valid |-> FALSE, tables |-> <<>>]}
    \cup {[empty |-> FALSE, valid |-> TRUE, tables |-> ts] : ts \in SeqsUpTo(Tables, MaxItems)}

At(dir, name) == Append(dir, name)

\* The settings path: absent, a regular file, or a directory holding any of
\* manifest.toml (a file or a directory), .tmux.conf (a file, or a link to
\* nvim that dangles when nvim is absent) and nvim (a directory with a file).
SettingsTrees ==
    {{}, {<<SETTINGS, File(NoText)>>}}
    \cup {{<<SETTINGS, Dir>>} \cup m \cup t \cup n :
            m \in {{}, {<<At(SETTINGS, MANIFEST_FILE_NAME), Dir>>}}
                  \cup {{<<At(SETTINGS, MANIFEST_FILE_NAME), File(x)>>} : x \in ManifestTexts},
            t \in {{}, {<<At(SETTINGS, TMUX), File(NoText)>>},
                   {<<At(SETTINGS, TMUX), Link(At(SETTINGS, NVIM))>>}},
            n \in {{}, {<<At(SETTINGS, NVIM), Dir>>,
                        <<At(At(SETTINGS, NVIM), NVIM), File(NoText)>>}}}

\* The home directory: .tmux.conf absent, a file or a dangling link; .config
\* absent, a file, a directory holding nvim (a directory with a file, or a
\* dangling link), a link to the settings directory, or a dangling link.
HomeTrees ==
    {{<<HOME, Dir>>} \cup t \cup c :
        t \in {{}, {<<At(HOME, TMUX), File(NoText)>>}, {<<At(HOME, TMUX), Link(GONE)>>}},
        c \in {{}, {<<At(HOME, CONFIG), File(NoText)>>},
               {<<At(HOME, CONFIG), Dir>>, <<At(At(HOME, CONFIG), NVIM), Dir>>,
                <<At(At(At(HOME, CONFIG), NVIM), "init"), File(NoText)>>},
               {<<At(HOME, CONFIG), Dir>>, <<At(At(HOME, CONFIG), NVIM), Link(GONE)>>},
               {<<At(HOME, CONFIG), Link(SETTINGS)>>},
               {<<At(HOME, CONFIG), Link(GONE)>>}}}

InitialTrees == {MkFs(h \cup s) : h \in HomeTrees, s \in SettingsTrees}

\* ------------------------------------------------------------------ state

VARIABLES
    fs,                 \* the file system
    pc,                 \* "main", "lets_go", "returned" (lets_go's), "rejected" (checks')
    check_err,          \* the error checks returned ("" for none)
    settings_dir_path,  \* lets_go's arguments, as checks returned them
    manifest,
    idx,                \* the item lets_go's loop is at
    status,             \* lets_go's status
    result,             \* what lets_go returned: "Ok", "Warn", "Err" ("" before)
    run,                \* which call of lets_go this is
    fs0,                \* history: the tree main started with
    run_start,          \* history: the tree this call of lets_go started with
    before,             \* history: the tree before the last item processed
    trace,              \* history: this call's items, as processed
    previous            \* history: the call before this one

vars == <<fs, pc, check_err, settings_dir_path, manifest, idx, status, result, run,
          fs0, run_start, before, trace, previous>>

NoRun == [result |-> "", fs |-> <<>>, trace |-> <<>>]

Init ==
    /\ fs \in InitialTrees
    /\ pc = "main"
    /\ check_err = ""
    /\ settings_dir_path = <<>>
    /\ manifest = <<>>
    /\ idx = 0
    /\ status = "Ok"
    /\ result = ""
    /\ run = 0
    /\ fs0 = fs
    /\ run_start = fs
    /\ before = fs
    /\ trace = <<>>
    /\ previous = NoRun

\* main, lines 58-59: checks, and lets_go only on its success (the ?).
Checks ==
    /\ pc = "main"
    /\ LET c == checks(fs, SETTINGS) IN
       /\ pc' = IF c.ok THEN "lets_go" ELSE "rejected"
       /\ check_err' = c.err
       /\ settings_dir_path' = c.settings_dir_path
       /\ manifest' = c.manifest_items
       /\ idx' = IF c.ok THEN 1 ELSE 0
       /\ run' = IF c.ok THEN 1 ELSE 0
    /\ UNCHANGED <<fs, status, result, fs0, run_start, before, trace, previous>>

\* What the trace keeps of an item: whether its source and its destination
\* existed when it was processed, what came of it, and the calls that
\* changed the tree.
Processed(f, item, o) ==
    [src |-> Exists(f, Append(settings_dir_path, item.source)),
     dst |-> Exists(f, HOME \o item.destination),
     outcome |-> o.outcome, op |-> o.op, calls |-> o.calls]

\* lets_go: one iteration of the loop, o being what the item came to; an
\* error returns at once (the ?).
Step(o) ==
    /\ fs' = o.fs
    /\ before' = fs
    /\ trace' = Append(trace, Processed(fs, manifest[idx], o))
    /\ status' = NextStatus(status, o.outcome)
    /\ IF o.outcome = "error"
       THEN pc' = "returned" /\ result' = "Err" /\ idx' = idx
       ELSE pc' = "lets_go" /\ result' = result /\ idx' = idx + 1

Item ==
    /\ pc = "lets_go"
    /\ idx <= Len(manifest)
    /\ Step(ProcessItem(fs, HOME, settings_dir_path, manifest[idx]))
    /\ UNCHANGED <<check_err, settings_dir_path, manifest, run, fs0, run_start, previous>>

\* lets_go: the loop is over, Ok(status).
Return ==
    /\ pc = "lets_go"
    /\ idx > Len(manifest)
    /\ pc' = "returned"
    /\ result' = status
    /\ UNCHANGED <<fs, check_err, settings_dir_path, manifest, idx, status, run,
                   fs0, run_start, before, trace, previous>>

\* lets_go is called a second time with the same base directory, settings
\* directory and manifest.
Again ==
    /\ pc = "returned"
    /\ run = 1
    /\ pc' = "lets_go"
    /\ run' = run + 1
    /\ idx' = 1
    /\ status' = "Ok"
    /\ result' = ""
    /\ run_start' = fs
    /\ before' = fs
    /\ trace' = <<>>
    /\ previous' = [result |-> result, fs |-> fs, trace |-> trace]
    /\ UNCHANGED <<fs, check_err, settings_dir_path, manifest, fs0>>

Next == Checks \/ Item \/ Return \/ Again

Spec == Init /\ [][Next]_vars

\* ------------------------------------------------------------- claim C1

\* The seven checks of the validator, each stated of the tree main started
\* with (the validator changes nothing).
ManifestPath == At(SETTINGS, MANIFEST_FILE_NAME)

PathExists == Exists(fs0, SETTINGS)

PathIsDirectory == IsDir(fs0, SETTINGS)

HasAnEntry == \E q \in DOMAIN fs0 : Front(q) = SETTINGS

HasManifest == ManifestPath \in DOMAIN fs0

HasOtherEntry == \E q \in DOMAIN fs0 : Front(q) = SETTINGS /\ q # ManifestPath

ManifestReadable == Kind(fs0, ManifestPath) = "file"

ManifestNonEmpty == ManifestReadable /\ ~fs0[ManifestPath].text.empty

ManifestParses ==
    /\ ManifestNonEmpty
    /\ fs0[ManifestPath].text.valid
    /\ \A i \in 1..Len(fs0[ManifestPath].text.tables) :
          /\ fs0[ManifestPath].text.tables[i].source # {}
          /\ fs0[ManifestPath].text.tables[i].destination # {}

\* The error of the first of the seven checks that fails ("" when all pass).
FirstFailure ==
    IF ~PathExists THEN "NotFound"
    ELSE IF ~PathIsDirectory THEN "NotADirectory"
    ELSE IF ~HasAnEntry THEN "EmptyDirectory"
    ELSE IF ~HasManifest THEN "ManifestMissing"
    ELSE IF ~HasOtherEntry THEN "NothingToInstall"
    ELSE IF ~ManifestNonEmpty THEN "EmptyManifest"
    ELSE IF ~ManifestParses THEN "ManifestParseError"
    ELSE ""

FirstFivePass == PathExists /\ PathIsDirectory /\ HasAnEntry /\ HasManifest /\ HasOtherEntry

\* C1 as claimed: for every input the validator returns the error of the
\* first failing check of the seven, in the order given, and succeeds only
\* if all seven pass.
C1_FirstFailingCheckOfSeven ==
    pc # "main" =>
        /\ check_err = FirstFailure
        /\ (pc # "rejected") <=> (FirstFailure = "")

\* C1 as amended: the same, except that when the first five checks pass and
\* the manifest.toml entry cannot be read as a file (it is a directory), the
\* validator returns the read's I/O error, which is none of the seven.
C1_FirstFailingCheckOrReadError ==
    pc # "main" =>
        /\ check_err = IF FirstFivePass /\ ~ManifestReadable THEN "IoError" ELSE FirstFailure
        /\ (pc # "rejected") <=> (FirstFailure = "")

\* Several checks fail at once (the directory holds only an empty
\* manifest.toml) and the first of them is the one reported.
C1_Witness ==
    /\ pc = "rejected"
    /\ check_err = "NothingToInstall"
    /\ HasManifest /\ ~ManifestNonEmpty /\ ~ManifestParses

\* ------------------------------------------------------------- claim C2

Items == 1..Len(trace)

SourcePath(i) == At(settings_dir_path, manifest[i].source)

DestinationPath(i) == HOME \o manifest[i].destination

\* C2: a call of lets_go that returns a status has processed every item;
\* the status is Warn exactly when the source of some item did not exist
\* when the item was processed; an item whose source was missing only warns,
\* and every item whose source existed was linked or skipped.  A missing
\* source never ends the loop.
C2_WarnIffSomeSourceMissing ==
    /\ (pc = "returned" /\ result # "Err") =>
          /\ Len(trace) = Len(manifest)
          /\ result = IF \E i \in Items : ~trace[i].src THEN "Warn" ELSE "Ok"
          /\ \A i \in Items : trace[i].src => trace[i].outcome \in {"linked", "skip"}
    /\ \A i \in Items : ~trace[i].src =>
          /\ trace[i].outcome = "warn"
          /\ i < Len(trace) \/ pc = "returned" \/ idx = i + 1

\* A missing source, then a later item linked, and Warn returned.
C2_Witness ==
    /\ pc = "returned" /\ result = "Warn"
    /\ Len(trace) = 2
    /\ ~trace[1].src /\ trace[2].outcome = "linked"

\* ------------------------------------------------------------- claim C3

AllSourcesAbsent ==
    \A i \in 1..Len(manifest) : ~Exists(run_start, At(settings_dir_path, manifest[i].source))

\* C3 as claimed: for every manifest whose sources are all absent when
\* lets_go is called, lets_go returns Warn and changes nothing.
C3_AllAbsentWarnsAndChangesNothing ==
    (pc \in {"lets_go", "returned"} /\ AllSourcesAbsent) =>
        /\ fs = run_start
        /\ \A i \in Items : trace[i].calls = <<>>
        /\ pc = "returned" => result = "Warn"

\* C3 as amended: the same for every manifest with at least one item (the
\* manifest without items returns Ok).
C3_NonEmptyAllAbsentWarnsAndChangesNothing ==
    (pc \in {"lets_go", "returned"} /\ AllSourcesAbsent) =>
        /\ fs = run_start
        /\ \A i \in Items : trace[i].calls = <<>>
        /\ pc = "returned" => result = IF manifest = <<>> THEN "Ok" ELSE "Warn"

\* Two items without a source, one with force set and an existing
\* destination: Warn, and the destination is still there.
C3_Witness ==
    /\ pc = "returned" /\ result = "Warn" /\ run = 1
    /\ AllSourcesAbsent
    /\ Len(manifest) = 2
    /\ \E i \in 1..2 : manifest[i].force /\ Exists(fs, DestinationPath(i))

\* ------------------------------------------------------------- claim C4

\* The item processed last, and its paths.
LastItem == Len(trace)

\* p has an entry of its own (a dangling link has one and does not exist).
HasEntry(f, p) == Entry(f, p).ok /\ Entry(f, p).path \in DOMAIN f

\* A component of p is taken by something that is not a directory: a
\* regular file or a dangling link on the way, or a dangling link at p.
Blocked(f, p) ==
    \E k \in 1..Len(p) : HasEntry(f, SubSeq(p, 1, k)) /\ ~IsDir(f, SubSeq(p, 1, k))

\* The item processed last added exactly one symbolic link, at its
\* destination, resolving to the canonical source; whatever else it added
\* is a real directory above the destination; it removed nothing.
OneLinkCreated ==
    LET d == Entry(fs, DestinationPath(LastItem)).path IN
    /\ Entry(fs, DestinationPath(LastItem)).ok
    /\ d \in DOMAIN fs /\ d \notin DOMAIN before
    /\ fs[d] = Link(Canonicalize(before, SourcePath(LastItem)).path)
    /\ Canonicalize(fs, DestinationPath(LastItem)) = Canonicalize(fs, SourcePath(LastItem))
    /\ Exists(fs, DestinationPath(LastItem))
    /\ \A q \in (DOMAIN fs) \ (DOMAIN before) :
          q # d => fs[q] = Dir /\ IsPrefix(q, DestinationPath(LastItem))
    /\ \A q \in DOMAIN before : q \in DOMAIN fs /\ fs[q] = before[q]
    /\ Kind(fs, Canonicalize(fs, Front(DestinationPath(LastItem))).path) = "dir"

\* C4 as claimed: every item whose destination does not exist when it is
\* processed gets exactly one symbolic link at the destination, resolving
\* to the canonical source, missing parents made as real directories.
C4_AbsentDestinationIsLinked ==
    (trace # <<>> /\ ~trace[LastItem].dst) =>
        trace[LastItem].outcome = "linked" /\ OneLinkCreated

\* C4 as amended: that holds for the items whose source exists and whose
\* destination path is not blocked (no dangling link at the destination, no
\* regular file or dangling link in place of a parent); a blocked item fails
\* with an I/O error, and an item without a source only warns.
C4_AbsentDestinationIsLinkedUnlessBlocked ==
    (trace # <<>> /\ ~trace[LastItem].dst) =>
        IF ~trace[LastItem].src THEN trace[LastItem].outcome = "warn" /\ fs = before
        ELSE IF Blocked(before, DestinationPath(LastItem))
        THEN trace[LastItem].outcome = "error"
        ELSE trace[LastItem].outcome = "linked" /\ OneLinkCreated

\* An item linked at a destination whose parent directory had to be made.
C4_Witness ==
    /\ trace # <<>>
    /\ trace[LastItem].src /\ ~trace[LastItem].dst
    /\ trace[LastItem].outcome = "linked"
    /\ trace[LastItem].calls = <<"mkdir", "symlink">>
    /\ OneLinkCreated

\* ------------------------------------------------------------- claim C5

\* Item i has no force and its destination exists after the first call.
InstalledNoForce(i) == ~manifest[i].force /\ Exists(run_start, DestinationPath(i))

\* C5 as claimed: when items without force have their destinations after
\* the first call, the second call makes no change for any of them,
\* returns no error, and leaves the tree as the first call left it.
C5_SecondRunIsNoOp ==
    (run = 2 /\ pc = "returned" /\ \E i \in 1..Len(manifest) : InstalledNoForce(i)) =>
        /\ \A i \in Items : InstalledNoForce(i) => trace[i].calls = <<>>
        /\ result # "Err"
        /\ fs = run_start

\* C5 as amended: in the second call, an item without force whose
\* destination exists after the first call changes nothing and raises no
\* error (it is skipped, or warns when its source is missing); when every
\* item of the manifest is such an item, the second call returns no error
\* and leaves the tree as the first call left it.  Other items (force set,
\* or no destination after the first call) may still change the tree or
\* fail.
C5_SecondRunSkipsInstalledItems ==
    run = 2 =>
        /\ \A i \in Items : InstalledNoForce(i) =>
              trace[i].calls = <<>> /\ trace[i].outcome \in {"skip", "warn"}
        /\ (\A i \in 1..Len(manifest) : InstalledNoForce(i)) =>
              fs = run_start /\ result # "Err"

\* The second call has skipped an item that the first call linked.
C5_Witness ==
    /\ run = 2 /\ pc = "returned" /\ result = "Ok"
    /\ Len(manifest) = 2
    /\ \A i \in 1..2 : InstalledNoForce(i) /\ trace[i].outcome = "skip"
    /\ previous.trace[1].outcome = "linked"
    /\ fs = run_start

\* ------------------------------------------------------------- claim C6

\* The destination of the item processed last is a link to the canonical
\* source and nothing is left below it.
DestinationReplaced ==
    LET d == Entry(before, DestinationPath(LastItem)).path IN
    /\ d \in DOMAIN fs
    /\ fs[d] = Link(Canonicalize(before, SourcePath(LastItem)).path)
    /\ \A q \in DOMAIN fs : IsPrefix(d, q) => q = d
    /\ Canonicalize(fs, DestinationPath(LastItem)) = Canonicalize(fs, SourcePath(LastItem))
    /\ Exists(fs, DestinationPath(LastItem))

\* C6: an item with force whose source and destination exist has its
\* destination removed (the whole tree of a directory) and replaced by a
\* symbolic link to the canonical source.
C6_ForceReplacesDestination ==
    (trace # <<>> /\ manifest[LastItem].force /\ trace[LastItem].src /\ trace[LastItem].dst) =>
        trace[LastItem].outcome = "linked" /\ DestinationReplaced

\* ------------------------------------------------------------- claim C7

\* The status the items before the last one determined.
StatusBeforeLast ==
    IF \E j \in 1..(LastItem - 1) : ~trace[j].src THEN "Warn" ELSE "Ok"

\* C7: an item without force whose source and destination exist is
\* skipped: the tree is as before, no call changed it, the status is what
\* the earlier items made it, no error is raised and the loop goes on to the
\* next item (or returns the status after the last).
C7_SkipChangesNothing ==
    (trace # <<>> /\ ~manifest[LastItem].force /\ trace[LastItem].src /\ trace[LastItem].dst) =>
        /\ trace[LastItem].outcome = "skip"
        /\ fs = before
        /\ trace[LastItem].calls = <<>>
        /\ status = StatusBeforeLast
        /\ result # "Err"
        /\ \/ pc = "lets_go" /\ idx = LastItem + 1
           \/ pc = "returned" /\ LastItem = Len(manifest) /\ result = StatusBeforeLast

\* In the first call, an item is skipped after an earlier item was linked,
\* and the loop is at the end of the manifest.
C7_Witness ==
    /\ run = 1 /\ pc = "lets_go"
    /\ Len(trace) = 2 /\ idx = 3
    /\ trace[1].outcome = "linked"
    /\ ~manifest[2].force /\ trace[2].src /\ trace[2].dst /\ trace[2].outcome = "skip"

\* ------------------------------------------------------------- claim C8

\* p's own entry is a symbolic link.
IsLink(f, p) == HasEntry(f, p) /\ Kind(f, Entry(f, p).path) = "link"

\* C8: a call of a file system operation that fails at item k ends lets_go
\* with that error: k is the last item processed, and the links made for
\* the items before k are still in place.
C8_ErrorEndsRunAndKeepsLinks ==
    /\ \A i \in Items : trace[i].outcome = "error" =>
          /\ i = Len(trace) /\ idx = i
          /\ pc = "returned" /\ result = "Err"
          /\ trace[i].op \in {"remove", "create_dir_all", "canonicalize", "symlink"}
    /\ result = "Err" =>
          /\ trace # <<>> /\ trace[LastItem].outcome = "error"
          /\ \A j \in 1..(LastItem - 1) :
                trace[j].outcome = "linked" => IsLink(fs, DestinationPath(j))

\* ------------------------------------------------------------- claim C9

\* manifest.toml is a file one of whose tables lacks source or destination.
LacksRequiredKey ==
    /\ ManifestReadable
    /\ \E i \in 1..Len(fs0[ManifestPath].text.tables) :
          \/ fs0[ManifestPath].text.tables[i].source = {}
          \/ fs0[ManifestPath].text.tables[i].destination = {}

\* C9: lets_go runs only after checks has returned success: when checks
\* fails nothing has been changed and no item was processed; the tree
\* changes only in a run whose manifest passed all checks; a manifest with
\* a table lacking source or destination never reaches lets_go.
C9_ValidationBeforeInstallation ==
    /\ pc = "rejected" => fs = fs0 /\ trace = <<>> /\ run = 0 /\ check_err # ""
    /\ (pc \in {"lets_go", "returned"} \/ run > 0 \/ fs # fs0) =>
          check_err = "" /\ FirstFailure = "" /\ ManifestParses
    /\ LacksRequiredKey => pc \in {"main", "rejected"} /\ fs = fs0

\* checks has failed on a manifest whose first table could have been
\* installed (its source exists, its destination does not) and whose
\* second table lacks a required key.
C9_Witness ==
    /\ pc = "rejected" /\ check_err = "ManifestParseError"
    /\ LacksRequiredKey
    /\ Len(fs0[ManifestPath].text.tables) = 2
    /\ fs0[ManifestPath].text.tables[1].source = {TMUX}
    /\ fs0[ManifestPath].text.tables[1].destination = {<<TMUX>>}
    /\ Exists(fs0, At(SETTINGS, TMUX)) /\ ~HasEntry(fs0, At(HOME, TMUX))
    /\ fs = fs0

\* ------------------------------------------------------------ claim C10

HomeEmpty(f) == Kind(f, HOME) = "dir" /\ \A q \in DOMAIN f : Front(q) # HOME

\* The settings directory holds a manifest.toml with the one item
\* .tmux.conf -> .tmux.conf (force false, by default) and no .tmux.conf;
\* the home directory is empty.
Scenario ==
    /\ PathIsDirectory /\ ManifestReadable
    /\ fs0[ManifestPath].text =
          [empty |-> FALSE, valid |-> TRUE,
           tables |-> <<[source |-> {TMUX}, destination |-> {<<TMUX>>}, force |-> {}]>>]
    /\ At(SETTINGS, TMUX) \notin DOMAIN fs0
    /\ HomeEmpty(fs0)

\* C10 as claimed: in the scenario the validator succeeds, the installer
\* returns Warn and the home directory stays empty.
C10_ScenarioWarns ==
    (Scenario /\ pc # "main") =>
        /\ pc # "rejected"
        /\ pc = "returned" => result = "Warn"
        /\ HomeEmpty(fs)

\* C10 as amended: that holds when the settings directory holds at least
\* one more entry besides manifest.toml; when manifest.toml is its only
\* entry the validator fails (nothing to install) and lets_go is not called.
C10_ScenarioWithOtherEntryWarns ==
    (Scenario /\ pc # "main") =>
        /\ HomeEmpty(fs)
        /\ IF HasOtherEntry
           THEN pc # "rejected" /\ (pc = "returned" => result = "Warn")
           ELSE pc = "rejected" /\ check_err = "NothingToInstall"

\* The scenario, with nvim beside manifest.toml: Warn returned.
C10_Witness ==
    /\ Scenario /\ HasOtherEntry
    /\ pc = "returned" /\ run = 1 /\ result = "Warn"
    /\ trace = <<[src |-> FALSE, dst |-> FALSE, outcome |-> "warn", op |-> "", calls |-> <<>>]>>
    /\ HomeEmpty(fs)

\* ------------------------------------------------------------ claim C11

\* A call that removes an entry.
Removals == {"remove_file", "remove_dir_all"}

\* Item i of the call made a removal.
Removed(i) == \E k \in 1..Len(trace[i].calls) : trace[i].calls[k] \in Removals

\* C11: within one item the source check comes before every destructive
\* step: an item whose source did not exist when it was checked makes no
\* call that changes the tree, with force set and an existing destination
\* too, and the tree after it is the tree before it; every removal was made
\* by an item whose source existed at its source check, and an entry is
\* missing after an item only when that item's source existed.
C11_RemovalOnlyAfterSourceCheck ==
    /\ \A i \in Items :
          /\ ~trace[i].src => trace[i].calls = <<>> /\ trace[i].outcome = "warn"
          /\ Removed(i) => trace[i].src
    /\ trace # <<>> =>
          /\ ~trace[LastItem].src => fs = before
          /\ (\E q \in DOMAIN before : q \notin DOMAIN fs) => trace[LastItem].src

\* An item with force set, a missing source and an existing destination was
\* passed over and its destination is still there; the next item, whose
\* source existed, has removed its destination and linked it.
C11_Witness ==
    /\ Len(trace) = 2 /\ run = 1
    /\ manifest[1].force /\ ~trace[1].src /\ trace[1].dst
    /\ trace[1].outcome = "warn" /\ trace[1].calls = <<>>
    /\ Exists(before, DestinationPath(1))
    /\ trace[2].src /\ Removed(2) /\ trace[2].outcome = "linked"
    /\ \E q \in DOMAIN before : q \notin DOMAIN fs

=============================================================================
